---- MODULE Spec2Model ----
(***************************************************************************)
(* The AVL tree of obstacles (src/logic/arbol_avl.py, nodo_avl.py,         *)
(* obstaculo.py).  NodoAVL objects live in a heap, the sequence `nodos`:   *)
(* a reference is an index into it and None is the absent reference.       *)
(* Every method is an operator that takes the heap and returns the heap    *)
(* it leaves behind together with its return value, statement by           *)
(* statement as in the source.                                             *)
(***************************************************************************)
EXTENDS Integers, Sequences, FiniteSets, TLC

\* ------------------------------------------------------------------ bounds
MaxNodos == 6

\* ------------------------------------------------------------------ inputs
None == 0

\* The coordinates a caller uses: a grid with repeated x and repeated y, and
\* the coordinates of the three scenarios of the specification's section 8.
ClavesGenerales == { <<x, y>> : x \in 1..4, y \in 0..1 }

ClavesEliminacion == { <<30, 1>>, <<10, 0>>, <<40, 2>>, <<5, 0>>, <<20, 1>> }

ClavesRango == { <<10, 0>>, <<5, 1>>, <<20, 2>>, <<5, 0>>, <<15, 1>> }

ClavesRotacion == { <<1, 0>>, <<2, 0>>, <<3, 0>> }

Universos == { ClavesGenerales, ClavesEliminacion, ClavesRango, ClavesRotacion }

ClavesBarrera == { <<2, 0>> }

Obstaculo(x, y, tipo) ==
    [x |-> x, y |-> y, tipo |-> tipo, ancho |-> 30,
     alto |-> IF tipo = "barrera" THEN 100 ELSE 30]

Roca(c) == Obstaculo(c[1], c[2], "roca")

Entradas(U) ==
    { Roca(c) : c \in U }
        \cup { Obstaculo(c[1], c[2], "barrera") : c \in U \cap ClavesBarrera }

Ventanas ==
    { <<5, 15, 0, 2>>, <<2, 3, 0, 1>>, <<1, 4, 1, 1>>, <<3, 2, 0, 1>>,
      <<1, 4, 1, 0>> }

\* ------------------------------------------------------------------ Obstaculo
\* Mutant: the upper x bound taken as exclusive.
esta_en_rango_excluyente(o, x_min, x_max, y_min, y_max) ==
    LET en_rango_x == x_min <= o.x /\ o.x < x_max
        en_rango_y == y_min <= o.y /\ o.y <= y_max
    IN  en_rango_x /\ en_rango_y

esta_en_rango(o, x_min, x_max, y_min, y_max) ==
    LET en_rango_x == x_min <= o.x /\ o.x <= x_max
        en_rango_y == y_min <= o.y /\ o.y <= y_max
    IN  en_rango_x /\ en_rango_y

Obstaculo_eq(a, b) == a.x = b.x /\ a.y = b.y

\* ------------------------------------------------------------------ NodoAVL
Max(a, b) == IF a > b THEN a ELSE b

\* NodoAVL(obstaculo): a new object at a fresh reference.
NodoAVL(h, obstaculo) ==
    [h |-> Append(h, [obstaculo |-> obstaculo, izquierdo |-> None,
                      derecho |-> None, altura |-> 1]),
     n |-> Len(h) + 1]

obtener_factor_balance(h, n) ==
    LET altura_izq == IF h[n].izquierdo # None THEN h[h[n].izquierdo].altura ELSE 0
        altura_der == IF h[n].derecho # None THEN h[h[n].derecho].altura ELSE 0
    IN  altura_izq - altura_der

\* Mutant: the height is taken from the left child alone.
actualizar_altura_solo_izquierdo(h, n) ==
    LET altura_izq == IF h[n].izquierdo # None THEN h[h[n].izquierdo].altura ELSE 0
    IN  [h EXCEPT ![n].altura = 1 + altura_izq]

actualizar_altura(h, n) ==
    LET altura_izq == IF h[n].izquierdo # None THEN h[h[n].izquierdo].altura ELSE 0
        altura_der == IF h[n].derecho # None THEN h[h[n].derecho].altura ELSE 0
    IN  [h EXCEPT ![n].altura = 1 + Max(altura_izq, altura_der)]

\* Mutant: the tie on x is not broken by y.
es_mayor_que_solo_x(h, n, otro) == h[n].obstaculo.x > otro.x

\* Mutant: on equal x the comparison of y is not strict.
es_mayor_que_o_igual(h, n, otro) ==
    IF h[n].obstaculo.x > otro.x THEN TRUE
    ELSE IF h[n].obstaculo.x = otro.x THEN h[n].obstaculo.y >= otro.y
    ELSE FALSE

es_mayor_que(h, n, otro) ==
    IF h[n].obstaculo.x > otro.x THEN TRUE
    ELSE IF h[n].obstaculo.x = otro.x THEN h[n].obstaculo.y > otro.y
    ELSE FALSE

es_igual_a(h, n, otro) ==
    h[n].obstaculo.x = otro.x /\ h[n].obstaculo.y = otro.y

\* ------------------------------------------------------------------ ArbolAVL
obtener_altura(h, nodo) == IF nodo # None THEN h[nodo].altura ELSE 0

\* A method that returns a node leaves [h |-> the heap, n |-> the node].
\* nodo.izquierdo = <the node r.n>, in the heap r.h the call left.
asignar_izquierdo(nodo, r) == [r.h EXCEPT ![nodo].izquierdo = r.n]

\* nodo.derecho = <the node r.n>, in the heap r.h the call left.
asignar_derecho(nodo, r) == [r.h EXCEPT ![nodo].derecho = r.n]

\* Mutant: the node keeps its left child when the child takes it as its
\* right child.
rotar_derecha_sin_soltar(h, nodo) ==
    LET hijo_izquierdo == h[nodo].izquierdo
        h2 == [h EXCEPT ![hijo_izquierdo].derecho = nodo]
        h3 == actualizar_altura(h2, nodo)
        h4 == actualizar_altura(h3, hijo_izquierdo)
    IN  [h |-> h4, n |-> hijo_izquierdo]

rotar_derecha(h, nodo) ==
    LET hijo_izquierdo == h[nodo].izquierdo
        h1 == [h EXCEPT ![nodo].izquierdo = h[hijo_izquierdo].derecho]
        h2 == [h1 EXCEPT ![hijo_izquierdo].derecho = nodo]
        h3 == actualizar_altura(h2, nodo)
        h4 == actualizar_altura(h3, hijo_izquierdo)
    IN  [h |-> h4, n |-> hijo_izquierdo]

\* Mutant: the height of the new root is recomputed before the old root's.
rotar_izquierda_alturas_al_reves(h, nodo) ==
    LET hijo_derecho == h[nodo].derecho
        h1 == [h EXCEPT ![nodo].derecho = h[hijo_derecho].izquierdo]
        h2 == [h1 EXCEPT ![hijo_derecho].izquierdo = nodo]
        h3 == actualizar_altura(h2, hijo_derecho)
        h4 == actualizar_altura(h3, nodo)
    IN  [h |-> h4, n |-> hijo_derecho]

rotar_izquierda(h, nodo) ==
    LET hijo_derecho == h[nodo].derecho
        h1 == [h EXCEPT ![nodo].derecho = h[hijo_derecho].izquierdo]
        h2 == [h1 EXCEPT ![hijo_derecho].izquierdo = nodo]
        h3 == actualizar_altura(h2, nodo)
        h4 == actualizar_altura(h3, hijo_derecho)
    IN  [h |-> h4, n |-> hijo_derecho]

\* Mutant: no rotation is ever applied.
balancear_sin_rotar(h, nodo) == [h |-> h, n |-> nodo]

\* Mutant: the two double-rotation cases are treated as single rotations.
balancear_solo_simple(h, nodo) ==
    LET factor_balance == obtener_factor_balance(h, nodo)
    IN  IF factor_balance > 1 /\ h[nodo].izquierdo # None
        THEN rotar_derecha(h, nodo)
        ELSE IF factor_balance < -1 /\ h[nodo].derecho # None
        THEN rotar_izquierda(h, nodo)
        ELSE [h |-> h, n |-> nodo]

\* Mutant: of the two rotations of a double case only the one of the child
\* is applied.
balancear_doble_a_medias(h, nodo) ==
    LET factor_balance == obtener_factor_balance(h, nodo)
    IN  IF /\ factor_balance > 1
           /\ h[nodo].izquierdo # None
           /\ obtener_factor_balance(h, h[nodo].izquierdo) >= 0
        THEN rotar_derecha(h, nodo)
        ELSE IF /\ factor_balance < -1
                /\ h[nodo].derecho # None
                /\ obtener_factor_balance(h, h[nodo].derecho) <= 0
        THEN rotar_izquierda(h, nodo)
        ELSE IF /\ factor_balance > 1
                /\ h[nodo].izquierdo # None
                /\ obtener_factor_balance(h, h[nodo].izquierdo) < 0
        THEN [h |-> asignar_izquierdo(nodo, rotar_izquierda(h, h[nodo].izquierdo)),
              n |-> nodo]
        ELSE IF /\ factor_balance < -1
                /\ h[nodo].derecho # None
                /\ obtener_factor_balance(h, h[nodo].derecho) > 0
        THEN [h |-> asignar_derecho(nodo, rotar_derecha(h, h[nodo].derecho)),
              n |-> nodo]
        ELSE [h |-> h, n |-> nodo]

\* Mutant: only the node that leans to the left is rotated.
balancear_solo_a_la_izquierda(h, nodo) ==
    LET factor_balance == obtener_factor_balance(h, nodo)
    IN  IF /\ factor_balance > 1
           /\ h[nodo].izquierdo # None
           /\ obtener_factor_balance(h, h[nodo].izquierdo) >= 0
        THEN rotar_derecha(h, nodo)
        ELSE IF /\ factor_balance > 1
                /\ h[nodo].izquierdo # None
                /\ obtener_factor_balance(h, h[nodo].izquierdo) < 0
        THEN rotar_derecha(
                 asignar_izquierdo(nodo, rotar_izquierda(h, h[nodo].izquierdo)),
                 nodo)
        ELSE [h |-> h, n |-> nodo]

\* Mutant: a rotation is applied only when the factor is beyond 2 or -2.
balancear_umbral_dos(h, nodo) ==
    LET factor_balance == obtener_factor_balance(h, nodo)
    IN  IF factor_balance > 2 /\ h[nodo].izquierdo # None
        THEN rotar_derecha(h, nodo)
        ELSE IF factor_balance < -2 /\ h[nodo].derecho # None
        THEN rotar_izquierda(h, nodo)
        ELSE [h |-> h, n |-> nodo]

\* Mutant: the single rotations are chosen on a strict comparison (> 0,
\* < 0) of the child's factor.
balancear_estricto(h, nodo) ==
    LET factor_balance == obtener_factor_balance(h, nodo)
    IN  IF /\ factor_balance > 1
           /\ h[nodo].izquierdo # None
           /\ obtener_factor_balance(h, h[nodo].izquierdo) > 0
        THEN rotar_derecha(h, nodo)
        ELSE IF /\ factor_balance < -1
                /\ h[nodo].derecho # None
                /\ obtener_factor_balance(h, h[nodo].derecho) < 0
        THEN rotar_izquierda(h, nodo)
        ELSE IF /\ factor_balance > 1
                /\ h[nodo].izquierdo # None
                /\ obtener_factor_balance(h, h[nodo].izquierdo) < 0
        THEN rotar_derecha(
                 asignar_izquierdo(nodo, rotar_izquierda(h, h[nodo].izquierdo)),
                 nodo)
        ELSE IF /\ factor_balance < -1
                /\ h[nodo].derecho # None
                /\ obtener_factor_balance(h, h[nodo].derecho) > 0
        THEN rotar_izquierda(
                 asignar_derecho(nodo, rotar_derecha(h, h[nodo].derecho)),
                 nodo)
        ELSE [h |-> h, n |-> nodo]

balancear(h, nodo) ==
    LET factor_balance == obtener_factor_balance(h, nodo)
    IN  IF /\ factor_balance > 1
           /\ h[nodo].izquierdo # None
           /\ obtener_factor_balance(h, h[nodo].izquierdo) >= 0
        THEN rotar_derecha(h, nodo)
        ELSE IF /\ factor_balance < -1
                /\ h[nodo].derecho # None
                /\ obtener_factor_balance(h, h[nodo].derecho) <= 0
        THEN rotar_izquierda(h, nodo)
        ELSE IF /\ factor_balance > 1
                /\ h[nodo].izquierdo # None
                /\ obtener_factor_balance(h, h[nodo].izquierdo) < 0
        THEN rotar_derecha(
                 asignar_izquierdo(nodo, rotar_izquierda(h, h[nodo].izquierdo)),
                 nodo)
        ELSE IF /\ factor_balance < -1
                /\ h[nodo].derecho # None
                /\ obtener_factor_balance(h, h[nodo].derecho) > 0
        THEN rotar_izquierda(
                 asignar_derecho(nodo, rotar_derecha(h, h[nodo].derecho)),
                 nodo)
        ELSE [h |-> h, n |-> nodo]

RECURSIVE _buscar_obstaculo(_, _, _)
\* Mutant: the descent compares x only and goes right on equal x.
_buscar_obstaculo_solo_x(h, nodo, obstaculo) ==
    IF nodo = None THEN None
    ELSE IF es_igual_a(h, nodo, obstaculo) THEN nodo
    ELSE IF h[nodo].obstaculo.x > obstaculo.x
    THEN _buscar_obstaculo(h, h[nodo].izquierdo, obstaculo)
    ELSE _buscar_obstaculo(h, h[nodo].derecho, obstaculo)

_buscar_obstaculo(h, nodo, obstaculo) ==
    IF nodo = None THEN None
    ELSE IF es_igual_a(h, nodo, obstaculo) THEN nodo
    ELSE IF es_mayor_que(h, nodo, obstaculo)
    THEN _buscar_obstaculo(h, h[nodo].izquierdo, obstaculo)
    ELSE _buscar_obstaculo(h, h[nodo].derecho, obstaculo)

RECURSIVE _insertar_recursivo(_, _, _)
\* Mutant: the two branches of the descent are swapped.
_insertar_recursivo_invertido(h, nodo, obstaculo) ==
    IF nodo = None THEN NodoAVL(h, obstaculo)
    ELSE balancear(
             actualizar_altura(
                 IF es_mayor_que(h, nodo, obstaculo)
                 THEN asignar_derecho(nodo,
                          _insertar_recursivo(h, h[nodo].derecho, obstaculo))
                 ELSE asignar_izquierdo(nodo,
                          _insertar_recursivo(h, h[nodo].izquierdo, obstaculo)),
                 nodo),
             nodo)

_insertar_recursivo(h, nodo, obstaculo) ==
    IF nodo = None THEN NodoAVL(h, obstaculo)
    ELSE balancear(
             actualizar_altura(
                 IF es_mayor_que(h, nodo, obstaculo)
                 THEN asignar_izquierdo(nodo,
                          _insertar_recursivo(h, h[nodo].izquierdo, obstaculo))
                 ELSE asignar_derecho(nodo,
                          _insertar_recursivo(h, h[nodo].derecho, obstaculo)),
                 nodo),
             nodo)

\* while nodo.izquierdo is not None: nodo = nodo.izquierdo
RECURSIVE _encontrar_minimo(_, _)
\* Mutant: the loop is skipped and the node itself is returned.
_encontrar_minimo_sin_bajar(h, nodo) == nodo

_encontrar_minimo(h, nodo) ==
    IF h[nodo].izquierdo # None THEN _encontrar_minimo(h, h[nodo].izquierdo)
    ELSE nodo

RECURSIVE _eliminar_recursivo(_, _, _)
\* Mutant: the successor's node is removed and its entry is not copied.
_eliminar_dos_hijos_sin_copiar(h, nodo, sucesor) ==
    asignar_derecho(nodo,
        _eliminar_recursivo(h, h[nodo].derecho, h[sucesor].obstaculo))

\* Caso 3: nodo.obstaculo = sucesor.obstaculo, then the successor's entry is
\* deleted from the right subtree and the result assigned to nodo.derecho.
_eliminar_dos_hijos(h, nodo, sucesor) ==
    asignar_derecho(nodo,
        _eliminar_recursivo([h EXCEPT ![nodo].obstaculo = h[sucesor].obstaculo],
                            h[nodo].derecho, h[sucesor].obstaculo))

\* Mutant: the node is returned with its height recomputed and is not
\* balanced.
_eliminar_recursivo_sin_balancear(h, nodo, obstaculo) ==
    IF nodo = None THEN [h |-> h, n |-> None]
    ELSE IF es_igual_a(h, nodo, obstaculo)
              /\ h[nodo].izquierdo = None /\ h[nodo].derecho = None
    THEN [h |-> h, n |-> None]
    ELSE IF es_igual_a(h, nodo, obstaculo) /\ h[nodo].izquierdo = None
    THEN [h |-> h, n |-> h[nodo].derecho]
    ELSE IF es_igual_a(h, nodo, obstaculo) /\ h[nodo].derecho = None
    THEN [h |-> h, n |-> h[nodo].izquierdo]
    ELSE [h |-> actualizar_altura(
                    IF es_igual_a(h, nodo, obstaculo)
                    THEN _eliminar_dos_hijos(h, nodo,
                                             _encontrar_minimo(h, h[nodo].derecho))
                    ELSE IF es_mayor_que(h, nodo, obstaculo)
                    THEN asignar_izquierdo(nodo,
                             _eliminar_recursivo(h, h[nodo].izquierdo, obstaculo))
                    ELSE asignar_derecho(nodo,
                             _eliminar_recursivo(h, h[nodo].derecho, obstaculo)),
                    nodo),
          n |-> nodo]

\* Mutant: a matching node without a left child is dropped with its right
\* subtree.
_eliminar_recursivo_suelta(h, nodo, obstaculo) ==
    IF nodo = None THEN [h |-> h, n |-> None]
    ELSE IF es_igual_a(h, nodo, obstaculo) /\ h[nodo].izquierdo = None
    THEN [h |-> h, n |-> None]
    ELSE IF es_igual_a(h, nodo, obstaculo) /\ h[nodo].derecho = None
    THEN [h |-> h, n |-> h[nodo].izquierdo]
    ELSE balancear(
             actualizar_altura(
                 IF es_igual_a(h, nodo, obstaculo)
                 THEN _eliminar_dos_hijos(h, nodo,
                                          _encontrar_minimo(h, h[nodo].derecho))
                 ELSE IF es_mayor_que(h, nodo, obstaculo)
                 THEN asignar_izquierdo(nodo,
                          _eliminar_recursivo(h, h[nodo].izquierdo, obstaculo))
                 ELSE asignar_derecho(nodo,
                          _eliminar_recursivo(h, h[nodo].derecho, obstaculo)),
                 nodo),
             nodo)

_eliminar_recursivo(h, nodo, obstaculo) ==
    IF nodo = None THEN [h |-> h, n |-> None]
    ELSE IF es_igual_a(h, nodo, obstaculo)
              /\ h[nodo].izquierdo = None /\ h[nodo].derecho = None
    THEN [h |-> h, n |-> None]
    ELSE IF es_igual_a(h, nodo, obstaculo) /\ h[nodo].izquierdo = None
    THEN [h |-> h, n |-> h[nodo].derecho]
    ELSE IF es_igual_a(h, nodo, obstaculo) /\ h[nodo].derecho = None
    THEN [h |-> h, n |-> h[nodo].izquierdo]
    ELSE balancear(
             actualizar_altura(
                 IF es_igual_a(h, nodo, obstaculo)
                 THEN _eliminar_dos_hijos(h, nodo,
                                          _encontrar_minimo(h, h[nodo].derecho))
                 ELSE IF es_mayor_que(h, nodo, obstaculo)
                 THEN asignar_izquierdo(nodo,
                          _eliminar_recursivo(h, h[nodo].izquierdo, obstaculo))
                 ELSE asignar_derecho(nodo,
                          _eliminar_recursivo(h, h[nodo].derecho, obstaculo)),
                 nodo),
             nodo)

RECURSIVE _buscar_rango_recursivo(_, _, _, _, _, _, _)
\* if obstaculo.esta_en_rango(...): resultado.append(obstaculo)
_anotar_si_en_rango(obstaculo, x_min, x_max, y_min, y_max, resultado) ==
    IF esta_en_rango(obstaculo, x_min, x_max, y_min, y_max)
    THEN Append(resultado, obstaculo)
    ELSE resultado

\* Mutant: the left subtree is pruned when the node sits on the lower bound.
_buscar_rango_recursivo_estricto(h, nodo, x_min, x_max, y_min, y_max, resultado) ==
    IF nodo = None THEN resultado
    ELSE IF h[nodo].obstaculo.x <= x_max
    THEN _buscar_rango_recursivo(h, h[nodo].derecho, x_min, x_max, y_min, y_max,
             IF h[nodo].obstaculo.x > x_min
             THEN _buscar_rango_recursivo(h, h[nodo].izquierdo,
                      x_min, x_max, y_min, y_max,
                      _anotar_si_en_rango(h[nodo].obstaculo,
                                          x_min, x_max, y_min, y_max, resultado))
             ELSE _anotar_si_en_rango(h[nodo].obstaculo,
                                      x_min, x_max, y_min, y_max, resultado))
    ELSE IF h[nodo].obstaculo.x > x_min
    THEN _buscar_rango_recursivo(h, h[nodo].izquierdo, x_min, x_max, y_min, y_max,
             _anotar_si_en_rango(h[nodo].obstaculo,
                                 x_min, x_max, y_min, y_max, resultado))
    ELSE _anotar_si_en_rango(h[nodo].obstaculo, x_min, x_max, y_min, y_max, resultado)

\* Mutant: the right subtree is pruned when the node sits on the upper bound.
_buscar_rango_recursivo_derecha_estricta(h, nodo, x_min, x_max, y_min, y_max, resultado) ==
    IF nodo = None THEN resultado
    ELSE IF h[nodo].obstaculo.x < x_max
    THEN _buscar_rango_recursivo(h, h[nodo].derecho, x_min, x_max, y_min, y_max,
             IF h[nodo].obstaculo.x >= x_min
             THEN _buscar_rango_recursivo(h, h[nodo].izquierdo,
                      x_min, x_max, y_min, y_max,
                      _anotar_si_en_rango(h[nodo].obstaculo,
                                          x_min, x_max, y_min, y_max, resultado))
             ELSE _anotar_si_en_rango(h[nodo].obstaculo,
                                      x_min, x_max, y_min, y_max, resultado))
    ELSE IF h[nodo].obstaculo.x >= x_min
    THEN _buscar_rango_recursivo(h, h[nodo].izquierdo, x_min, x_max, y_min, y_max,
             _anotar_si_en_rango(h[nodo].obstaculo,
                                 x_min, x_max, y_min, y_max, resultado))
    ELSE _anotar_si_en_rango(h[nodo].obstaculo, x_min, x_max, y_min, y_max, resultado)

\* The entry of the node is tested first, then the left subtree is walked if
\* obstaculo.x >= x_min, then the right one if obstaculo.x <= x_max; each
\* step appends to the resultado the step before left.
_buscar_rango_recursivo(h, nodo, x_min, x_max, y_min, y_max, resultado) ==
    IF nodo = None THEN resultado
    ELSE IF h[nodo].obstaculo.x <= x_max
    THEN _buscar_rango_recursivo(h, h[nodo].derecho, x_min, x_max, y_min, y_max,
             IF h[nodo].obstaculo.x >= x_min
             THEN _buscar_rango_recursivo(h, h[nodo].izquierdo,
                      x_min, x_max, y_min, y_max,
                      _anotar_si_en_rango(h[nodo].obstaculo,
                                          x_min, x_max, y_min, y_max, resultado))
             ELSE _anotar_si_en_rango(h[nodo].obstaculo,
                                      x_min, x_max, y_min, y_max, resultado))
    ELSE IF h[nodo].obstaculo.x >= x_min
    THEN _buscar_rango_recursivo(h, h[nodo].izquierdo, x_min, x_max, y_min, y_max,
             _anotar_si_en_rango(h[nodo].obstaculo,
                                 x_min, x_max, y_min, y_max, resultado))
    ELSE _anotar_si_en_rango(h[nodo].obstaculo, x_min, x_max, y_min, y_max, resultado)

\* Mutant: the bounds of the window are put in order before the search.
buscar_en_rango_ordenado(h, raiz_, x_min, x_max, y_min, y_max) ==
    _buscar_rango_recursivo(h, raiz_,
        IF x_min <= x_max THEN x_min ELSE x_max,
        IF x_min <= x_max THEN x_max ELSE x_min,
        IF y_min <= y_max THEN y_min ELSE y_max,
        IF y_min <= y_max THEN y_max ELSE y_min, <<>>)

buscar_en_rango(h, raiz_, x_min, x_max, y_min, y_max) ==
    _buscar_rango_recursivo(h, raiz_, x_min, x_max, y_min, y_max, <<>>)

\* Mutant: the node taken from the queue is put back at its end.
_encolar_hijos_y_el_nodo(h, nodo, cola) ==
    (IF h[nodo].izquierdo # None THEN Append(cola, h[nodo].izquierdo) ELSE cola)
        \o (IF h[nodo].derecho # None THEN <<h[nodo].derecho>> ELSE <<>>)
        \o <<nodo>>

\* Mutant: the right child is enqueued before the left one.
_encolar_hijos_derecho_primero(h, nodo, cola) ==
    (IF h[nodo].derecho # None THEN Append(cola, h[nodo].derecho) ELSE cola)
        \o (IF h[nodo].izquierdo # None THEN <<h[nodo].izquierdo>> ELSE <<>>)

\* if nodo.izquierdo: cola.append(nodo.izquierdo)
\* if nodo.derecho: cola.append(nodo.derecho)
_encolar_hijos(h, nodo, cola) ==
    (IF h[nodo].izquierdo # None THEN Append(cola, h[nodo].izquierdo) ELSE cola)
        \o (IF h[nodo].derecho # None THEN <<h[nodo].derecho>> ELSE <<>>)

\* while cola: nodo = cola.pop(0); resultado.append(nodo.obstaculo); ...
RECURSIVE _anchura_bucle(_, _, _)
_anchura_bucle(h, cola, resultado) ==
    IF cola = <<>> THEN resultado
    ELSE _anchura_bucle(h, _encolar_hijos(h, Head(cola), Tail(cola)),
                        Append(resultado, h[Head(cola)].obstaculo))

recorrido_en_anchura(h, raiz_) ==
    IF raiz_ = None THEN <<>> ELSE _anchura_bucle(h, <<raiz_>>, <<>>)

RECURSIVE _recorrido_inorder_recursivo(_, _, _)
_recorrido_inorder_recursivo(h, nodo, resultado) ==
    IF nodo # None
    THEN _recorrido_inorder_recursivo(h, h[nodo].derecho,
             Append(_recorrido_inorder_recursivo(h, h[nodo].izquierdo, resultado),
                    h[nodo].obstaculo))
    ELSE resultado

recorrido_en_profundidad(h, raiz_) ==
    _recorrido_inorder_recursivo(h, raiz_, <<>>)

\* ------------------------------------------------------------------ memory
\* Objects no reference reaches are reclaimed, and the identity of an object
\* is not observable: after a call that allocated or released a node the live
\* objects are renumbered in the order a breadth-first walk from the root
\* first meets them.  The renumbering keeps the reference graph as it is,
\* shared and cyclic references included.
Hijos(h, n) ==
    (IF h[n].izquierdo # None THEN <<h[n].izquierdo>> ELSE <<>>)
        \o (IF h[n].derecho # None /\ h[n].derecho # h[n].izquierdo
            THEN <<h[n].derecho>> ELSE <<>>)

NoVistos(s, vistos) ==
    SelectSeq(s, LAMBDA c : \A i \in 1..Len(vistos) : vistos[i] # c)

RECURSIVE Alcanzables(_, _, _)
AlcanzablesMas(h, cola, vistos, nuevos) ==
    Alcanzables(h, Tail(cola) \o nuevos, vistos \o nuevos)

Alcanzables(h, cola, vistos) ==
    IF cola = <<>> THEN vistos
    ELSE AlcanzablesMas(h, cola, vistos, NoVistos(Hijos(h, Head(cola)), vistos))

Renumerado(vivos, n) ==
    IF n = None THEN None ELSE CHOOSE i \in 1..Len(vivos) : vivos[i] = n

Renumerar(h, vivos) ==
    [i \in 1..Len(vivos) |->
        [h[vivos[i]] EXCEPT !.izquierdo = Renumerado(vivos, @),
                            !.derecho = Renumerado(vivos, @)]]

Recolectar(h, raiz_) ==
    IF raiz_ = None THEN [h |-> <<>>, n |-> None]
    ELSE [h |-> Renumerar(h, Alcanzables(h, <<raiz_>>, <<raiz_>>)), n |-> 1]

\* ------------------------------------------------------------------ state
\* nodos, raiz, total_obstaculos: the heap of NodoAVL objects and the two
\* fields of the ArbolAVL.  universo: the coordinates the caller draws from.
\* op, arg, ret: the last call, its argument and what it returned.
\* saldo: the calls of insertar that returned True minus the calls of
\* eliminar that returned True, since the tree was created or last emptied
\* by limpiar.  antes: the count as the last call found it.
VARIABLES nodos, raiz, total_obstaculos, universo, op, arg, ret, saldo, antes

vars == <<nodos, raiz, total_obstaculos, universo, op, arg, ret, saldo, antes>>

\* What a call of insertar or eliminar leaves: the heap and the root (the
\* node r.n in the heap r.h), the count, and what the call returns.
Resultado(r, total, devuelve) ==
    [h |-> r.h, raiz |-> r.n, total |-> total, ret |-> devuelve]

\* Mutant: the first entry becomes the root and is not counted.
insertar_raiz_sin_contar(h, raiz_, total, obstaculo) ==
    IF raiz_ = None
    THEN Resultado(NodoAVL(h, obstaculo), total, TRUE)
    ELSE IF _buscar_obstaculo(h, raiz_, obstaculo) # None
    THEN [h |-> h, raiz |-> raiz_, total |-> total, ret |-> FALSE]
    ELSE Resultado(_insertar_recursivo(h, raiz_, obstaculo), total + 1, TRUE)

\* Mutant: the entry is inserted without looking for its pair first.
insertar_sin_comprobar(h, raiz_, total, obstaculo) ==
    IF raiz_ = None
    THEN Resultado(NodoAVL(h, obstaculo), total + 1, TRUE)
    ELSE Resultado(_insertar_recursivo(h, raiz_, obstaculo), total + 1, TRUE)

insertar(h, raiz_, total, obstaculo) ==
    IF raiz_ = None
    THEN Resultado(NodoAVL(h, obstaculo), total + 1, TRUE)
    ELSE IF _buscar_obstaculo(h, raiz_, obstaculo) # None
    THEN [h |-> h, raiz |-> raiz_, total |-> total, ret |-> FALSE]
    ELSE Resultado(_insertar_recursivo(h, raiz_, obstaculo), total + 1, TRUE)

\* Mutant: the entry is deleted without looking for it first.
eliminar_sin_comprobar(h, raiz_, total, obstaculo) ==
    IF raiz_ = None
    THEN [h |-> h, raiz |-> raiz_, total |-> total, ret |-> FALSE]
    ELSE Resultado(_eliminar_recursivo(h, raiz_, obstaculo), total - 1, TRUE)

\* Mutant: a successful deletion leaves the count as it was.
eliminar_sin_descontar(h, raiz_, total, obstaculo) ==
    IF raiz_ = None
    THEN [h |-> h, raiz |-> raiz_, total |-> total, ret |-> FALSE]
    ELSE IF _buscar_obstaculo(h, raiz_, obstaculo) = None
    THEN [h |-> h, raiz |-> raiz_, total |-> total, ret |-> FALSE]
    ELSE Resultado(_eliminar_recursivo(h, raiz_, obstaculo), total, TRUE)

eliminar(h, raiz_, total, obstaculo) ==
    IF raiz_ = None
    THEN [h |-> h, raiz |-> raiz_, total |-> total, ret |-> FALSE]
    ELSE IF _buscar_obstaculo(h, raiz_, obstaculo) = None
    THEN [h |-> h, raiz |-> raiz_, total |-> total, ret |-> FALSE]
    ELSE Resultado(_eliminar_recursivo(h, raiz_, obstaculo), total - 1, TRUE)

esta_vacio(raiz_) == raiz_ = None

obtener_total_obstaculos(total) == total

\* Mutant: the root is reset and the count is left as it was.
limpiar_sin_contar(h, raiz_, total) == [h |-> h, raiz |-> None, total |-> total]

\* Mutant: the count is reset and the root is left as it was.
limpiar_conserva_raiz(h, raiz_, total) == [h |-> h, raiz |-> raiz_, total |-> 0]

limpiar(h, raiz_, total) == [h |-> h, raiz |-> None, total |-> 0]

Init ==
    /\ nodos = <<>>
    /\ raiz = None
    /\ total_obstaculos = 0
    /\ universo \in Universos
    /\ op = "__init__"
    /\ arg = <<>>
    /\ ret = None
    /\ saldo = 0
    /\ antes = 0

\* The object graph after a call: renumbered if the call allocated or
\* released a node, untouched if it returned False.
Compactado(r) ==
    IF r.ret THEN Resultado(Recolectar(r.h, r.raiz), r.total, r.ret) ELSE r

TrasInsertar(h, raiz_, total, o) == Compactado(insertar(h, raiz_, total, o))

TrasEliminar(h, raiz_, total, o) == Compactado(eliminar(h, raiz_, total, o))

Insertar ==
    \E o \in Entradas(universo) :
        \E r \in {TrasInsertar(nodos, raiz, total_obstaculos, o)} :
            /\ r.ret => Len(nodos) < MaxNodos
            /\ nodos' = r.h
            /\ raiz' = r.raiz
            /\ total_obstaculos' = r.total
            /\ op' = "insertar"
            /\ arg' = o
            /\ ret' = r.ret
            /\ saldo' = IF r.ret THEN saldo + 1 ELSE saldo
            /\ antes' = total_obstaculos
            /\ UNCHANGED universo

Eliminar ==
    \E c \in universo :
        \E r \in {TrasEliminar(nodos, raiz, total_obstaculos, Roca(c))} :
            /\ nodos' = r.h
            /\ raiz' = r.raiz
            /\ total_obstaculos' = r.total
            /\ op' = "eliminar"
            /\ arg' = Roca(c)
            /\ ret' = r.ret
            /\ saldo' = IF r.ret THEN saldo - 1 ELSE saldo
            /\ antes' = total_obstaculos
            /\ UNCHANGED universo

Limpiar ==
    \E r \in {limpiar(nodos, raiz, total_obstaculos)} :
        /\ nodos' = Recolectar(r.h, r.raiz).h
        /\ raiz' = r.raiz
        /\ total_obstaculos' = r.total
        /\ op' = "limpiar"
        /\ arg' = <<>>
        /\ ret' = None
        /\ saldo' = 0
        /\ antes' = total_obstaculos
        /\ UNCHANGED universo

\* Mutant: a call that reads the tree forgets its root.
Consulta_que_suelta(nombre, argumento, resultado) ==
    /\ op' = nombre
    /\ arg' = argumento
    /\ ret' = resultado
    /\ raiz' = None
    /\ antes' = total_obstaculos
    /\ UNCHANGED <<nodos, total_obstaculos, universo, saldo>>

\* The calls that read the tree: what they return is recorded in ret.  None
\* of them assigns to a field of the tree or of a node.
Consulta(nombre, argumento, resultado) ==
    /\ op' = nombre
    /\ arg' = argumento
    /\ ret' = resultado
    /\ antes' = total_obstaculos
    /\ UNCHANGED <<nodos, raiz, total_obstaculos, universo, saldo>>

BuscarEnRango ==
    \E v \in Ventanas :
        Consulta("buscar_en_rango", v,
                 buscar_en_rango(nodos, raiz, v[1], v[2], v[3], v[4]))

BuscarObstaculo ==
    \E c \in universo :
        Consulta("_buscar_obstaculo", Roca(c), _buscar_obstaculo(nodos, raiz, Roca(c)))

RecorridoEnAnchura ==
    Consulta("recorrido_en_anchura", <<>>, recorrido_en_anchura(nodos, raiz))

RecorridoEnProfundidad ==
    Consulta("recorrido_en_profundidad", <<>>, recorrido_en_profundidad(nodos, raiz))

EstaVacio ==
    Consulta("esta_vacio", <<>>, esta_vacio(raiz))

ObtenerTotalObstaculos ==
    Consulta("obtener_total_obstaculos", <<>>,
             obtener_total_obstaculos(total_obstaculos))

Next ==
    \/ Insertar
    \/ Eliminar
    \/ Limpiar
    \/ BuscarEnRango
    \/ BuscarObstaculo
    \/ RecorridoEnAnchura
    \/ RecorridoEnProfundidad
    \/ EstaVacio
    \/ ObtenerTotalObstaculos

Spec == Init /\ [][Next]_vars

\* ------------------------------------------------------------------ properties
\* What the claims speak of, read off the object graph itself and not through
\* the methods of the tree.
Clave(o) == <<o.x, o.y>>

Precede(a, b) == a.x < b.x \/ (a.x = b.x /\ a.y < b.y)

RECURSIVE NodosDe(_, _)
NodosDe(h, n) ==
    IF n = None THEN {}
    ELSE {n} \cup NodosDe(h, h[n].izquierdo) \cup NodosDe(h, h[n].derecho)

RECURSIVE AlturaReal(_, _)
AlturaReal(h, n) ==
    IF n = None THEN 0
    ELSE 1 + Max(AlturaReal(h, h[n].izquierdo), AlturaReal(h, h[n].derecho))

FactorReal(h, n) == AlturaReal(h, h[n].izquierdo) - AlturaReal(h, h[n].derecho)

Guardados(h, raiz_) == { h[n].obstaculo : n \in NodosDe(h, raiz_) }

Almacenada(h, raiz_, o) == \E g \in Guardados(h, raiz_) : Clave(g) = Clave(o)

Ascendente(s) == \A i \in 1..(Len(s) - 1) : Precede(s[i], s[i + 1])

Elementos(s) == { s[i] : i \in 1..Len(s) }

SinRepetidos(s) == \A i, j \in 1..Len(s) : s[i] = s[j] => i = j

EnOrden == recorrido_en_profundidad(nodos, raiz)

\* C1: after any sequence of insertar and eliminar calls every node of the
\* tree has a balance factor (height of the left subtree minus height of the
\* right subtree) of -1, 0 or 1, by the real heights and by the stored ones.
C1_Balance ==
    \A n \in NodosDe(nodos, raiz) :
        /\ FactorReal(nodos, n) \in {-1, 0, 1}
        /\ obtener_factor_balance(nodos, n) \in {-1, 0, 1}

\* The entry inserted last is the root of a three-node tree: it was rotated
\* up from the bottom by a double rotation.
C1_Witness ==
    /\ op = "insertar" /\ ret = TRUE
    /\ total_obstaculos = 3
    /\ Clave(nodos[raiz].obstaculo) = Clave(arg)

\* C2: for every node, every entry of its left subtree orders strictly before
\* the node's entry and every entry of its right subtree strictly after, in
\* lexicographic (x, y) order; so recorrido_en_profundidad is strictly
\* ascending and holds no coordinate pair twice.
SinParRepetido(s) ==
    \A i, j \in 1..Len(s) : Clave(s[i]) = Clave(s[j]) => i = j

C2_Orden ==
    /\ \A n \in NodosDe(nodos, raiz) :
          /\ \A m \in NodosDe(nodos, nodos[n].izquierdo) :
                Precede(nodos[m].obstaculo, nodos[n].obstaculo)
          /\ \A m \in NodosDe(nodos, nodos[n].derecho) :
                Precede(nodos[n].obstaculo, nodos[m].obstaculo)
    /\ Ascendente(EnOrden)
    /\ SinParRepetido(EnOrden)

\* An in-order traversal of four or more entries two of which share their x.
C2_Witness ==
    /\ op = "recorrido_en_profundidad"
    /\ Len(ret) >= 4
    /\ Len(ret) < MaxNodos
    /\ \E i \in 1..(Len(ret) - 1) : ret[i].x = ret[i + 1].x

\* C3: the count equals the calls of insertar that returned True minus the
\* calls of eliminar that returned True, and equals the length of
\* recorrido_en_profundidad.
C3_Conteo ==
    /\ obtener_total_obstaculos(total_obstaculos) = saldo
    /\ obtener_total_obstaculos(total_obstaculos) = Len(EnOrden)

\* A deletion has just succeeded and left three or more entries.
C3_Witness ==
    /\ op = "eliminar" /\ ret = TRUE
    /\ saldo >= 3
    /\ total_obstaculos = Len(EnOrden)

\* C4: buscar_en_rango returns exactly the stored entries with
\* x_min <= x <= x_max and y_min <= y <= y_max, each of them once, whatever
\* the window: as a set, the in-order traversal filtered by the window.
\* Every tree is first reached at creation or by the insertar or eliminar
\* that built it, so the windows are all tried there; a recorded query is
\* checked wherever it was made.
CotasX == { c[1] : c \in universo } \cup {0, 50}

CotasY == {0, 1, 2}

EnVentana(o, v) == v[1] <= o.x /\ o.x <= v[2] /\ v[3] <= o.y /\ o.y <= v[4]

RangoExactoEntre(resultado, v, guardados) ==
    /\ SinRepetidos(resultado)
    /\ Elementos(resultado) = { o \in guardados : EnVentana(o, v) }

RangoExacto(resultado, v) == RangoExactoEntre(resultado, v, Elementos(EnOrden))

RecienConstruido ==
    op = "__init__" \/ (op \in {"insertar", "eliminar"} /\ ret = TRUE)

C4_Rango ==
    /\ RecienConstruido =>
          \A guardados \in { Elementos(EnOrden) } :
              \A x_min, x_max \in CotasX : \A y_min, y_max \in CotasY :
                  RangoExactoEntre(
                      buscar_en_rango(nodos, raiz, x_min, x_max, y_min, y_max),
                      <<x_min, x_max, y_min, y_max>>, guardados)
    /\ op = "buscar_en_rango" => RangoExacto(ret, arg)

\* A query that returned some of the stored entries and left others out.
C4_Witness ==
    /\ op = "buscar_en_rango"
    /\ Len(ret) >= 2
    /\ Len(ret) < total_obstaculos
    /\ \E o \in Guardados(nodos, raiz) : o.x \in arg[1]..arg[2] /\ o \notin Elementos(ret)

\* C5: insertar of an entry whose coordinate pair is already stored returns
\* False and leaves the heap, the root and the count as they were, so the
\* in-order traversal is the same; the category and the dimensions of the
\* entry play no part, and the entry stored first is kept.
C5_InsertarDuplicado ==
    [][ (op' = "insertar" /\ Almacenada(nodos, raiz, arg')) =>
            /\ ret' = FALSE
            /\ nodos' = nodos
            /\ raiz' = raiz
            /\ total_obstaculos' = total_obstaculos
            /\ recorrido_en_profundidad(nodos', raiz') = EnOrden ]_vars

\* A rejected insertar of an entry whose pair is stored with another category.
C5_Witness ==
    /\ op = "insertar" /\ ret = FALSE
    /\ \E g \in Guardados(nodos, raiz) : Clave(g) = Clave(arg) /\ g.tipo # arg.tipo

\* C6: eliminar of a coordinate pair that is not stored, on an empty tree too,
\* returns False and leaves the heap, the root and the count as they were.
C6_EliminarAusente ==
    [][ (op' = "eliminar" /\ ~Almacenada(nodos, raiz, arg')) =>
            /\ ret' = FALSE
            /\ nodos' = nodos
            /\ raiz' = raiz
            /\ total_obstaculos' = total_obstaculos
            /\ recorrido_en_profundidad(nodos', raiz') = EnOrden ]_vars

\* A rejected eliminar on a tree of three or more entries.
C6_Witness ==
    /\ op = "eliminar" /\ ret = FALSE
    /\ total_obstaculos >= 3
    /\ ~Almacenada(nodos, raiz, arg)

\* C7: insertar of an entry whose coordinate pair is not stored returns True,
\* adds one to the count, and the stored entries are then the ones before
\* plus the new one; _buscar_obstaculo finds each of them.
C7_InsertarNuevo ==
    [][ (op' = "insertar" /\ ~Almacenada(nodos, raiz, arg')) =>
            /\ ret' = TRUE
            /\ total_obstaculos' = total_obstaculos + 1
            /\ Guardados(nodos', raiz') = Guardados(nodos, raiz) \cup {arg'}
            /\ Cardinality(NodosDe(nodos', raiz')) =
                   Cardinality(NodosDe(nodos, raiz)) + 1
            /\ \A g \in Guardados(nodos, raiz) \cup {arg'} :
                  LET n == _buscar_obstaculo(nodos', raiz', g)
                  IN  n # None /\ nodos'[n].obstaculo = g ]_vars

\* The sixth entry went in: the insertion whose rotation moves an inner
\* subtree across needs six nodes.
C7_Witness ==
    /\ op = "insertar" /\ ret = TRUE
    /\ total_obstaculos = 6
    /\ AlturaReal(nodos, raiz) = 3
    /\ arg \in Guardados(nodos, raiz)

\* C8: eliminar of a stored coordinate pair returns True, takes one from the
\* count, and the in-order traversal is then ascending and is the one before
\* with that entry taken out, be the node a leaf, a node with one child or a
\* node with two; so it is for the tree built from (30,1),(10,0),(40,2),
\* (5,0),(20,1) when (30,1) is deleted.
\* The tree t after insertar(o).
Sobre(t, o) == TrasInsertar(t.h, t.raiz, t.total, o)

RECURSIVE Construir(_)
Construir(claves) ==
    IF claves = <<>> THEN [h |-> <<>>, raiz |-> None, total |-> 0, ret |-> None]
    ELSE Sobre(Construir(SubSeq(claves, 1, Len(claves) - 1)),
               Roca(claves[Len(claves)]))

EsArbol(t) == nodos = t.h /\ raiz = t.raiz /\ total_obstaculos = t.total

ArbolEliminacion ==
    Construir(<< <<30, 1>>, <<10, 0>>, <<40, 2>>, <<5, 0>>, <<20, 1>> >>)

C8_EliminarGuardado ==
    [][ /\ (op' = "eliminar" /\ Almacenada(nodos, raiz, arg')) =>
              /\ ret' = TRUE
              /\ total_obstaculos' = total_obstaculos - 1
              /\ recorrido_en_profundidad(nodos', raiz') =
                     SelectSeq(EnOrden, LAMBDA o : Clave(o) # Clave(arg'))
              /\ Len(recorrido_en_profundidad(nodos', raiz')) = Len(EnOrden) - 1
              /\ Ascendente(recorrido_en_profundidad(nodos', raiz'))
        /\ (EsArbol(ArbolEliminacion) /\ op' = "eliminar" /\ arg' = Roca(<<30, 1>>)) =>
              recorrido_en_profundidad(nodos', raiz') =
                  << Roca(<<5, 0>>), Roca(<<10, 0>>), Roca(<<20, 1>>), Roca(<<40, 2>>) >>
      ]_vars

\* (30,1), the root with two children, was deleted from the tree of C8.
C8_Witness ==
    /\ op = "eliminar" /\ ret = TRUE /\ arg = Roca(<<30, 1>>)
    /\ LET t == TrasEliminar(ArbolEliminacion.h, ArbolEliminacion.raiz,
                             ArbolEliminacion.total, Roca(<<30, 1>>))
       IN  EsArbol(t)
    /\ Clave(ArbolEliminacion.h[ArbolEliminacion.raiz].obstaculo) = <<30, 1>>
    /\ ArbolEliminacion.h[ArbolEliminacion.raiz].izquierdo # None
    /\ ArbolEliminacion.h[ArbolEliminacion.raiz].derecho # None

\* C9: on the tree built from (10,0),(5,1),(20,2),(5,0),(15,1) the call
\* buscar_en_rango(5, 15, 0, 2) returns the set (10,0),(5,1),(5,0),(15,1).
ArbolRango ==
    Construir(<< <<10, 0>>, <<5, 1>>, <<20, 2>>, <<5, 0>>, <<15, 1>> >>)

C9_RangoEscenario ==
    (op = "buscar_en_rango" /\ arg = <<5, 15, 0, 2>> /\ EsArbol(ArbolRango)) =>
        /\ { Clave(o) : o \in Elementos(ret) } =
               { <<10, 0>>, <<5, 1>>, <<5, 0>>, <<15, 1>> }
        /\ Len(ret) = 4

C9_Witness ==
    /\ EsArbol(ArbolRango)
    /\ op = "buscar_en_rango" /\ arg = <<5, 15, 0, 2>>
    /\ universo = ClavesRango

\* C10: inserting (1,0),(2,0),(3,0) in that order gives a tree of height 2
\* whose root is (2,0); inserting (3,0),(1,0),(2,0) in that order gives a
\* tree whose root is (2,0) too.
ArbolAscendente == Construir(<< <<1, 0>>, <<2, 0>>, <<3, 0>> >>)

ArbolZigZag == Construir(<< <<3, 0>>, <<1, 0>>, <<2, 0>> >>)

TrasUltimo(t, c) == op = "insertar" /\ arg = Roca(c) /\ ret = TRUE /\ EsArbol(t)

C10_Rotaciones ==
    /\ TrasUltimo(ArbolAscendente, <<3, 0>>) =>
          /\ Clave(nodos[raiz].obstaculo) = <<2, 0>>
          /\ AlturaReal(nodos, raiz) = 2
          /\ nodos[raiz].altura = 2
    /\ TrasUltimo(ArbolZigZag, <<2, 0>>) =>
          Clave(nodos[raiz].obstaculo) = <<2, 0>>

C10_Witness ==
    /\ universo = ClavesRotacion
    /\ TrasUltimo(ArbolZigZag, <<2, 0>>)

C10_WitnessAscendente ==
    /\ universo = ClavesRotacion
    /\ TrasUltimo(ArbolAscendente, <<3, 0>>)

\* C11: buscar_en_rango with an inverted window (x_min > x_max or
\* y_min > y_max) returns the empty sequence on every reachable tree; the
\* search ends and no comparison in it fails.
Invertida(v) == v[1] > v[2] \/ v[3] > v[4]

C11_VentanaInvertida ==
    /\ RecienConstruido =>
          \A x_min, x_max \in CotasX : \A y_min, y_max \in CotasY :
              Invertida(<<x_min, x_max, y_min, y_max>>) =>
                  buscar_en_rango(nodos, raiz, x_min, x_max, y_min, y_max) = <<>>
    /\ (op = "buscar_en_rango" /\ Invertida(arg)) => ret = <<>>

\* A query on a tree of five entries whose window is inverted on y only and
\* would hold stored entries were its bounds exchanged.
C11_Witness ==
    /\ op = "buscar_en_rango" /\ arg[3] > arg[4] /\ arg[1] <= arg[2]
    /\ total_obstaculos >= 5
    /\ ret = <<>>
    /\ \E o \in Guardados(nodos, raiz) : EnVentana(o, <<arg[1], arg[2], arg[4], arg[3]>>)

\* C12: buscar_en_rango, _buscar_obstaculo, recorrido_en_anchura,
\* recorrido_en_profundidad, esta_vacio and obtener_total_obstaculos leave
\* the root, every node (children, stored height, entry) and the count as
\* they were; the tree changes only in a call of insertar, eliminar or
\* limpiar.
Lecturas ==
    { "buscar_en_rango", "_buscar_obstaculo", "recorrido_en_anchura",
      "recorrido_en_profundidad", "esta_vacio", "obtener_total_obstaculos" }

Encuentra(n, o) ==
    IF Almacenada(nodos, raiz, o)
    THEN n \in NodosDe(nodos, raiz) /\ Clave(nodos[n].obstaculo) = Clave(o)
    ELSE n = None

C13_Busqueda ==
    /\ RecienConstruido =>
          \A o \in Entradas(universo) : Encuentra(_buscar_obstaculo(nodos, raiz, o), o)
    /\ op = "_buscar_obstaculo" => Encuentra(ret, arg)

\* A lookup that found its entry two levels below the root, in a left
\* subtree whose root has the same x.
C13_Witness ==
    /\ op = "_buscar_obstaculo" /\ ret # None
    /\ \E p \in NodosDe(nodos, raiz) :
          /\ p # raiz
          /\ nodos[p].izquierdo = ret
          /\ nodos[p].obstaculo.x = arg.x
    /\ Clave(nodos[ret].obstaculo) = Clave(arg)

\* C14: recorrido_en_anchura returns every stored entry once, level by
\* level: the root's entry first, the entries of one depth before those of
\* the next, and within a level from left to right (the left child of a node
\* before its right child, the children of a node before those of a node
\* after it in its level); its length is the count.
RECURSIVE NivelSiguiente(_, _)
NivelSiguiente(h, nivel) ==
    IF nivel = <<>> THEN <<>>
    ELSE (IF h[Head(nivel)].izquierdo # None THEN <<h[Head(nivel)].izquierdo>> ELSE <<>>)
         \o (IF h[Head(nivel)].derecho # None THEN <<h[Head(nivel)].derecho>> ELSE <<>>)
         \o NivelSiguiente(h, Tail(nivel))

RECURSIVE PorNiveles(_, _)
PorNiveles(h, nivel) ==
    IF nivel = <<>> THEN <<>>
    ELSE [i \in 1..Len(nivel) |-> h[nivel[i]].obstaculo]
         \o PorNiveles(h, NivelSiguiente(h, nivel))

EnAnchura(s) ==
    /\ s = PorNiveles(nodos, IF raiz = None THEN <<>> ELSE <<raiz>>)
    /\ Len(s) = obtener_total_obstaculos(total_obstaculos)
    /\ SinRepetidos(s)
    /\ Elementos(s) = Guardados(nodos, raiz)
    /\ raiz # None => s[1] = nodos[raiz].obstaculo

C14_Anchura ==
    /\ EnAnchura(recorrido_en_anchura(nodos, raiz))
    /\ op = "recorrido_en_anchura" => EnAnchura(ret)

\* A breadth-first traversal of a tree of three levels whose last level
\* holds children of both children of the root.
C14_Witness ==
    /\ op = "recorrido_en_anchura"
    /\ Len(ret) >= 5
    /\ AlturaReal(nodos, raiz) = 3
    /\ AlturaReal(nodos, nodos[raiz].izquierdo) = 2
    /\ AlturaReal(nodos, nodos[raiz].derecho) = 2
    /\ ret # EnOrden

\* C15: a tree just created or just emptied by limpiar has no root, and on a
\* tree without root buscar_en_rango returns the empty sequence for every
\* window, recorrido_en_anchura and recorrido_en_profundidad return the
\* empty sequence, esta_vacio is true and obtener_total_obstaculos is 0.
VacioLeido ==
    /\ \A x_min, x_max \in CotasX : \A y_min, y_max \in CotasY :
          buscar_en_rango(nodos, raiz, x_min, x_max, y_min, y_max) = <<>>
    /\ recorrido_en_anchura(nodos, raiz) = <<>>
    /\ recorrido_en_profundidad(nodos, raiz) = <<>>
    /\ esta_vacio(raiz) = TRUE
    /\ obtener_total_obstaculos(total_obstaculos) = 0

C15_ArbolVacio ==
    /\ op \in {"__init__", "limpiar"} => raiz = None
    /\ raiz = None => VacioLeido
    /\ (raiz = None /\ op \in Lecturas \ {"_buscar_obstaculo"}) =>
          ret = CASE op = "esta_vacio" -> TRUE
                  [] op = "obtener_total_obstaculos" -> 0
                  [] OTHER -> <<>>

\* limpiar has just emptied a tree that held entries.
C15_Witness ==
    /\ op = "limpiar" /\ antes >= 1
    /\ esta_vacio(raiz)
    /\ EnOrden = <<>>

\* C16: limpiar, from any state, leaves no root and a count of zero, the
\* tree a new ArbolAVL has: each entry stored before can be inserted again
\* and becomes the root of a tree of one entry.
C16_Limpiar ==
    [][ op' = "limpiar" =>
            /\ raiz' = None
            /\ total_obstaculos' = 0
            /\ nodos' = <<>>
            /\ \A o \in Guardados(nodos, raiz) :
                  LET r == insertar(nodos', raiz', total_obstaculos', o)
                  IN  /\ r.ret = TRUE
                      /\ r.total = 1
                      /\ r.h[r.raiz].obstaculo = o
                      /\ recorrido_en_profundidad(r.h, r.raiz) = <<o>> ]_vars

\* limpiar has just emptied a tree of four or more entries.
C16_Witness ==
    /\ op = "limpiar" /\ antes >= 4
    /\ raiz = None /\ total_obstaculos = 0 /\ nodos = <<>>

\* C17: after every insertar and eliminar the stored height of every node
\* of the tree is the real one: 1 for a leaf, and 1 + max(height of the
\* left child, height of the right child) otherwise, an absent child
\* counting 0.
C17_Alturas ==
    \A n \in NodosDe(nodos, raiz) :
        /\ nodos[n].altura = AlturaReal(nodos, n)
        /\ nodos[n].altura =
               1 + Max(obtener_altura(nodos, nodos[n].izquierdo),
                       obtener_altura(nodos, nodos[n].derecho))
        /\ (nodos[n].izquierdo = None /\ nodos[n].derecho = None) =>
               nodos[n].altura = 1

\* A deletion has just left a tree of three levels that holds a node with
\* one child only.
C17_Witness ==
    /\ op = "eliminar" /\ ret = TRUE
    /\ raiz # None
    /\ nodos[raiz].altura = 3
    /\ \E n \in NodosDe(nodos, raiz) :
          nodos[n].altura = 2 /\ (nodos[n].izquierdo = None \/ nodos[n].derecho = None)

\* The calls of balancear that one call of insertar or eliminar makes: each
\* is the heap as balancear finds it (the child assigned and the height of
\* nodo recomputed) and the node it is given.
RECURSIVE LlamadasInsertar(_, _, _)
LlamadasInsertar(h, nodo, o) ==
    IF nodo = None THEN {}
    ELSE IF es_mayor_que(h, nodo, o)
    THEN { [h |-> actualizar_altura(
                      asignar_izquierdo(nodo,
                          _insertar_recursivo(h, h[nodo].izquierdo, o)), nodo),
            n |-> nodo] }
         \cup LlamadasInsertar(h, h[nodo].izquierdo, o)
    ELSE { [h |-> actualizar_altura(
                      asignar_derecho(nodo,
                          _insertar_recursivo(h, h[nodo].derecho, o)), nodo),
            n |-> nodo] }
         \cup LlamadasInsertar(h, h[nodo].derecho, o)

RECURSIVE LlamadasEliminar(_, _, _)
LlamadasEliminar(h, nodo, o) ==
    IF nodo = None THEN {}
    ELSE IF es_igual_a(h, nodo, o)
    THEN IF h[nodo].izquierdo = None \/ h[nodo].derecho = None THEN {}
         ELSE LET sucesor == _encontrar_minimo(h, h[nodo].derecho)
                  h1 == [h EXCEPT ![nodo].obstaculo = h[sucesor].obstaculo]
              IN  { [h |-> actualizar_altura(
                               _eliminar_dos_hijos(h, nodo, sucesor), nodo),
                     n |-> nodo] }
                  \cup LlamadasEliminar(h1, h[nodo].derecho, h[sucesor].obstaculo)
    ELSE IF es_mayor_que(h, nodo, o)
    THEN { [h |-> actualizar_altura(
                      asignar_izquierdo(nodo,
                          _eliminar_recursivo(h, h[nodo].izquierdo, o)), nodo),
            n |-> nodo] }
         \cup LlamadasEliminar(h, h[nodo].izquierdo, o)
    ELSE { [h |-> actualizar_altura(
                      asignar_derecho(nodo,
                          _eliminar_recursivo(h, h[nodo].derecho, o)), nodo),
            n |-> nodo] }
         \cup LlamadasEliminar(h, h[nodo].derecho, o)

\* The calls of balancear in the calls of insertar, and in the calls of
\* eliminar, that change the tree t.
AlInsertar(t) ==
    UNION { LlamadasInsertar(t.h, t.raiz, o) :
                o \in { e \in Entradas(universo) : ~Almacenada(t.h, t.raiz, e) } }

AlEliminar(t) ==
    UNION { LlamadasEliminar(t.h, t.raiz, o) :
                o \in { Roca(c) : c \in { k \in universo :
                                              Almacenada(t.h, t.raiz, Roca(k)) } } }

Actual == [h |-> nodos, raiz |-> raiz, total |-> total_obstaculos, ret |-> ret]

Factor(ll) == obtener_factor_balance(ll.h, ll.n)

Izq(ll) == ll.h[ll.n].izquierdo

Der(ll) == ll.h[ll.n].derecho

\* The four cases of the rule, and the number of them a call falls in.
CasoDerecha(ll) ==
    Factor(ll) > 1 /\ Izq(ll) # None /\ obtener_factor_balance(ll.h, Izq(ll)) >= 0

CasoIzquierda(ll) ==
    Factor(ll) < -1 /\ Der(ll) # None /\ obtener_factor_balance(ll.h, Der(ll)) <= 0

CasoIzquierdaDerecha(ll) ==
    Factor(ll) > 1 /\ Izq(ll) # None /\ obtener_factor_balance(ll.h, Izq(ll)) < 0

CasoDerechaIzquierda(ll) ==
    Factor(ll) < -1 /\ Der(ll) # None /\ obtener_factor_balance(ll.h, Der(ll)) > 0

CasosQueAplican(ll) ==
    (IF CasoDerecha(ll) THEN 1 ELSE 0) + (IF CasoIzquierda(ll) THEN 1 ELSE 0)
        + (IF CasoIzquierdaDerecha(ll) THEN 1 ELSE 0)
        + (IF CasoDerechaIzquierda(ll) THEN 1 ELSE 0)

\* C18: balancear chooses by the four cases and does nothing otherwise: a
\* factor above 1 with a left child of factor >= 0 gives one right rotation
\* (the left child comes up); below -1 with a right child of factor <= 0 one
\* left rotation; above 1 with a left child of factor < 0 a left rotation of
\* the left child and then a right rotation of the node (the left child's
\* right child comes up); below -1 with a right child of factor > 0 the
\* mirror image; with a factor of -1, 0 or 1 the node is returned and the
\* heap is untouched.  A node whose factor is beyond 1 or -1 falls in one
\* case and one only.
ReglaBalancear(ll) ==
    /\ Factor(ll) \in {-1, 0, 1} => balancear(ll.h, ll.n) = ll
    /\ CasoDerecha(ll) =>
          /\ balancear(ll.h, ll.n) = rotar_derecha(ll.h, ll.n)
          /\ balancear(ll.h, ll.n).n = Izq(ll)
    /\ CasoIzquierda(ll) =>
          /\ balancear(ll.h, ll.n) = rotar_izquierda(ll.h, ll.n)
          /\ balancear(ll.h, ll.n).n = Der(ll)
    /\ CasoIzquierdaDerecha(ll) =>
          /\ balancear(ll.h, ll.n) =
                 rotar_derecha(asignar_izquierdo(ll.n, rotar_izquierda(ll.h, Izq(ll))),
                               ll.n)
          /\ balancear(ll.h, ll.n).n = ll.h[Izq(ll)].derecho
    /\ CasoDerechaIzquierda(ll) =>
          /\ balancear(ll.h, ll.n) =
                 rotar_izquierda(asignar_derecho(ll.n, rotar_derecha(ll.h, Der(ll))),
                                 ll.n)
          /\ balancear(ll.h, ll.n).n = ll.h[Der(ll)].izquierdo
    /\ Factor(ll) \notin {-1, 0, 1} =>
          /\ CasosQueAplican(ll) = 1
          /\ balancear(ll.h, ll.n).n # ll.n

C18_ReglaBalancear ==
    RecienConstruido =>
        \A ll \in AlInsertar(Actual) \cup AlEliminar(Actual) : ReglaBalancear(ll)

\* (2,0) has just been inserted after (3,0) and (1,0): balancear found the
\* root with factor 2 over a left child of factor -1.
PrevioZigZag == Construir(<< <<3, 0>>, <<1, 0>> >>)

C18_Witness ==
    /\ TrasUltimo(ArbolZigZag, <<2, 0>>)
    /\ \E ll \in LlamadasInsertar(PrevioZigZag.h, PrevioZigZag.raiz, Roca(<<2, 0>>)) :
          /\ CasoIzquierdaDerecha(ll)
          /\ Clave(nodos[raiz].obstaculo) = Clave(ll.h[ll.h[Izq(ll)].derecho].obstaculo)

\* C19: the tie (a node of factor 2 over a left child of factor 0, or of
\* factor -2 over a right child of factor 0) does not come up in insertar;
\* it comes up in eliminar, and there balancear applies one rotation, not
\* two: the child comes up with the node as its child, and both are left
\* with a factor of -1, 0 or 1, by the stored heights and by the real ones.
EmpateIzquierdo(ll) ==
    Factor(ll) = 2 /\ Izq(ll) # None /\ obtener_factor_balance(ll.h, Izq(ll)) = 0

EmpateDerecho(ll) ==
    Factor(ll) = -2 /\ Der(ll) # None /\ obtener_factor_balance(ll.h, Der(ll)) = 0

Equilibrado(h, n) ==
    obtener_factor_balance(h, n) \in {-1, 0, 1} /\ FactorReal(h, n) \in {-1, 0, 1}

TrasEmpate(ll, r) ==
    /\ EmpateIzquierdo(ll) =>
          r.n = Izq(ll) /\ r.h[r.n].derecho = ll.n /\ r = rotar_derecha(ll.h, ll.n)
    /\ EmpateDerecho(ll) =>
          r.n = Der(ll) /\ r.h[r.n].izquierdo = ll.n /\ r = rotar_izquierda(ll.h, ll.n)
    /\ Equilibrado(r.h, r.n)
    /\ Equilibrado(r.h, ll.n)

C19_Empate ==
    RecienConstruido =>
        /\ \A ll \in AlInsertar(Actual) : ~EmpateIzquierdo(ll) /\ ~EmpateDerecho(ll)
        /\ \A ll \in AlEliminar(Actual) :
              (EmpateIzquierdo(ll) \/ EmpateDerecho(ll)) =>
                  TrasEmpate(ll, balancear(ll.h, ll.n))

\* (30,1) has just been deleted from the tree of C8: its successor (40,2)
\* took its place and was left with factor 2 over (10,0) of factor 0, and
\* (10,0) came up as the root.
C19_Witness ==
    /\ op = "eliminar" /\ arg = Roca(<<30, 1>>) /\ ret = TRUE
    /\ \E ll \in LlamadasEliminar(ArbolEliminacion.h, ArbolEliminacion.raiz,
                                   Roca(<<30, 1>>)) :
          /\ EmpateIzquierdo(ll)
          /\ EsArbol(Compactado(Resultado(balancear(ll.h, ll.n), 4, TRUE)))
    /\ Clave(nodos[raiz].obstaculo) = <<10, 0>>

\* C20: rotar_derecha on a node with a left child (rotar_izquierda on a
\* node with a right child) makes that child the root of the subtree and
\* the node its right (left) child, gives the node the child's right (left)
\* subtree in place of the child, leaves every other reference and the
\* in-order sequence of the subtree as they were, and leaves both nodes
\* with their real heights.
RotarDerechaCorrecta(h, nodo, r) ==
    /\ r.n = h[nodo].izquierdo
    /\ r.h[r.n].derecho = nodo
    /\ r.h[nodo].izquierdo = h[r.n].derecho
    /\ r.h[r.n].izquierdo = h[r.n].izquierdo
    /\ r.h[nodo].derecho = h[nodo].derecho
    /\ \A m \in DOMAIN h : m \notin {nodo, r.n} => r.h[m] = h[m]
    /\ \A m \in DOMAIN h : r.h[m].obstaculo = h[m].obstaculo
    /\ recorrido_en_profundidad(r.h, r.n) = recorrido_en_profundidad(h, nodo)
    /\ r.h[nodo].altura = AlturaReal(r.h, nodo)
    /\ r.h[r.n].altura = AlturaReal(r.h, r.n)
    /\ r.h[r.n].altura = 1 + Max(obtener_altura(r.h, r.h[r.n].izquierdo),
                                 r.h[nodo].altura)

RotarIzquierdaCorrecta(h, nodo, r) ==
    /\ r.n = h[nodo].derecho
    /\ r.h[r.n].izquierdo = nodo
    /\ r.h[nodo].derecho = h[r.n].izquierdo
    /\ r.h[r.n].derecho = h[r.n].derecho
    /\ r.h[nodo].izquierdo = h[nodo].izquierdo
    /\ \A m \in DOMAIN h : m \notin {nodo, r.n} => r.h[m] = h[m]
    /\ \A m \in DOMAIN h : r.h[m].obstaculo = h[m].obstaculo
    /\ recorrido_en_profundidad(r.h, r.n) = recorrido_en_profundidad(h, nodo)
    /\ r.h[nodo].altura = AlturaReal(r.h, nodo)
    /\ r.h[r.n].altura = AlturaReal(r.h, r.n)
    /\ r.h[r.n].altura = 1 + Max(r.h[nodo].altura,
                                 obtener_altura(r.h, r.h[r.n].derecho))

\* The rotations balancear applies in a call: the one of a single case, and
\* the two of a double case, each on the heap it finds.
RotacionesCorrectas(ll) ==
    /\ CasoDerecha(ll) =>
          RotarDerechaCorrecta(ll.h, ll.n, rotar_derecha(ll.h, ll.n))
    /\ CasoIzquierda(ll) =>
          RotarIzquierdaCorrecta(ll.h, ll.n, rotar_izquierda(ll.h, ll.n))
    /\ CasoIzquierdaDerecha(ll) =>
          /\ RotarIzquierdaCorrecta(ll.h, Izq(ll), rotar_izquierda(ll.h, Izq(ll)))
          /\ RotarDerechaCorrecta(
                 asignar_izquierdo(ll.n, rotar_izquierda(ll.h, Izq(ll))), ll.n,
                 balancear(ll.h, ll.n))
    /\ CasoDerechaIzquierda(ll) =>
          /\ RotarDerechaCorrecta(ll.h, Der(ll), rotar_derecha(ll.h, Der(ll)))
          /\ RotarIzquierdaCorrecta(
                 asignar_derecho(ll.n, rotar_derecha(ll.h, Der(ll))), ll.n,
                 balancear(ll.h, ll.n))

C20_Rotacion ==
    RecienConstruido =>
        /\ \A ll \in AlInsertar(Actual) \cup AlEliminar(Actual) :
              RotacionesCorrectas(ll)
        /\ \A n \in NodosDe(nodos, raiz) :
              /\ nodos[n].izquierdo # None =>
                    RotarDerechaCorrecta(nodos, n, rotar_derecha(nodos, n))
              /\ nodos[n].derecho # None =>
                    RotarIzquierdaCorrecta(nodos, n, rotar_izquierda(nodos, n))

\* A tree of five entries on which an insertar rotates its root to the left
\* and hands the root the left subtree, not empty, of its right child.
C20_Witness ==
    /\ RecienConstruido
    /\ total_obstaculos = 5
    /\ \E ll \in AlInsertar(Actual) :
          /\ CasoIzquierda(ll)
          /\ ll.n = raiz
          /\ ll.h[Der(ll)].izquierdo # None
          /\ rotar_izquierda(ll.h, ll.n).h[ll.n].derecho = ll.h[Der(ll)].izquierdo

\* Every tree the program reaches is also the tree of a state in which
\* esta_vacio has just been called, since the call is always possible and
\* changes nothing: what holds of the tree of each such state holds of every
\* reachable tree.  The formulas below that try many calls on a tree are
\* evaluated there, once for each tree.
UnaVezPorArbol == op = "esta_vacio"

\* C21: when eliminar meets the entry in a node with two children, the node
\* stays in the tree and takes the entry of its in-order successor, the
\* leftmost node of its right subtree; the deletion of the successor's entry
\* in the right subtree then removes that node, which has no left child, so
\* the two-children case is entered once at most in one call of eliminar.
RECURSIVE VecesDosHijos(_, _, _)
VecesDosHijos(h, nodo, o) ==
    IF nodo = None THEN 0
    ELSE IF es_igual_a(h, nodo, o)
    THEN IF h[nodo].izquierdo = None \/ h[nodo].derecho = None THEN 0
         ELSE 1 + VecesDosHijos(
                      [h EXCEPT ![nodo].obstaculo =
                           h[_encontrar_minimo(h, h[nodo].derecho)].obstaculo],
                      h[nodo].derecho,
                      h[_encontrar_minimo(h, h[nodo].derecho)].obstaculo)
    ELSE IF es_mayor_que(h, nodo, o)
    THEN VecesDosHijos(h, h[nodo].izquierdo, o)
    ELSE VecesDosHijos(h, h[nodo].derecho, o)

ConDosHijos(h, n) == h[n].izquierdo # None /\ h[n].derecho # None

\* The entry that follows o in the in-order sequence s.
Siguiente(s, o) == s[1 + CHOOSE i \in 1..Len(s) : s[i] = o]

\* d is what eliminar leaves (before the unreachable nodes are reclaimed)
\* when it deletes the entry of the node n, which has two children.
SucesorReemplaza(n, sucesor, d) ==
    /\ sucesor \in NodosDe(nodos, nodos[n].derecho)
    /\ nodos[sucesor].izquierdo = None
    /\ nodos[sucesor].obstaculo = Siguiente(EnOrden, nodos[n].obstaculo)
    /\ n \in NodosDe(d.h, d.raiz)
    /\ d.h[n].obstaculo = nodos[sucesor].obstaculo
    /\ sucesor \notin NodosDe(d.h, d.raiz)
    /\ NodosDe(d.h, d.raiz) = NodosDe(nodos, raiz) \ {sucesor}
    /\ \A m \in NodosDe(d.h, d.raiz) \ {n} : d.h[m].obstaculo = nodos[m].obstaculo

C21_DosHijos ==
    UnaVezPorArbol =>
        \A n \in NodosDe(nodos, raiz) :
            /\ VecesDosHijos(nodos, raiz, nodos[n].obstaculo) =
                   (IF ConDosHijos(nodos, n) THEN 1 ELSE 0)
            /\ ConDosHijos(nodos, n) =>
                   SucesorReemplaza(n, _encontrar_minimo(nodos, nodos[n].derecho),
                       eliminar(nodos, raiz, total_obstaculos, nodos[n].obstaculo))

\* A tree whose root has two children and whose successor is two levels
\* below it, under the left of the root's right child.
C21_Witness ==
    /\ UnaVezPorArbol /\ raiz # None
    /\ ConDosHijos(nodos, raiz)
    /\ _encontrar_minimo(nodos, nodos[raiz].derecho) # nodos[raiz].derecho
    /\ VecesDosHijos(nodos, raiz, nodos[raiz].obstaculo) = 1


\* C22: buscar_en_rango goes into the left child of a node only if the
\* node's x >= x_min and into its right child only if the node's x <= x_max;
\* on every reachable tree no subtree it leaves out holds an entry of the
\* window, nodes of the same x and different y included, and what it returns
\* is the entries of the window among the nodes it visits.
\* The nodes the search visits, in the order it visits them.
RECURSIVE Visitados(_, _, _, _)
Visitados(h, nodo, x_min, x_max) ==
    IF nodo = None THEN <<>>
    ELSE <<nodo>>
         \o (IF h[nodo].obstaculo.x >= x_min
             THEN Visitados(h, h[nodo].izquierdo, x_min, x_max) ELSE <<>>)
         \o (IF h[nodo].obstaculo.x <= x_max
             THEN Visitados(h, h[nodo].derecho, x_min, x_max) ELSE <<>>)

\* vis: the nodes visited for the bounds x_min, x_max.  The nodes not
\* visited are those of the subtrees left out: their x is outside the
\* bounds, so they are in no window with these bounds, whatever its y.
SinPerdidas(x_min, x_max, vis) ==
    \A n \in NodosDe(nodos, raiz) \ Elementos(vis) :
        /\ ~(x_min <= nodos[n].obstaculo.x /\ nodos[n].obstaculo.x <= x_max)
        /\ \A y_min, y_max \in CotasY :
              ~esta_en_rango(nodos[n].obstaculo, x_min, x_max, y_min, y_max)

DeLosVisitados(v, vis) ==
    buscar_en_rango(nodos, raiz, v[1], v[2], v[3], v[4]) =
        SelectSeq([i \in 1..Len(vis) |-> nodos[vis[i]].obstaculo],
                  LAMBDA o : EnVentana(o, v))

VentanasY == { <<0, 2>>, <<1, 1>> }

PodaCorrectaEnX(x_min, x_max, vis) ==
    /\ SinPerdidas(x_min, x_max, vis)
    /\ \A y \in VentanasY : DeLosVisitados(<<x_min, x_max, y[1], y[2]>>, vis)

C22_Poda ==
    UnaVezPorArbol =>
        \A x_min, x_max \in CotasX :
            PodaCorrectaEnX(x_min, x_max, Visitados(nodos, raiz, x_min, x_max))

\* A query on a tree of five or more entries that left a subtree out on each
\* side and met two stored entries of the same x, one on the upper bound of
\* the window and above the other in the tree.
C22_Witness ==
    /\ op = "buscar_en_rango" /\ total_obstaculos >= 5
    /\ Len(Visitados(nodos, raiz, arg[1], arg[2])) < total_obstaculos
    /\ \E n \in NodosDe(nodos, raiz) :
          /\ nodos[n].obstaculo.x = arg[2]
          /\ nodos[n].derecho # None
          /\ nodos[nodos[n].derecho].obstaculo.x = arg[2]
          /\ nodos[nodos[n].derecho].obstaculo \in Elementos(ret)


\* C23: es_mayor_que(node, e) holds exactly when node.x > e.x, or
\* node.x = e.x and node.y > e.y; of 'equal by coordinates', 'a orders after
\* b' and 'b orders after a' exactly one holds for any two entries; and the
\* relation is transitive.  The nodes are those of the tree, the entries
\* those of the tree and those a caller can pass.
UnoSolo(a, b, c) == (a /\ ~b /\ ~c) \/ (~a /\ b /\ ~c) \/ (~a /\ ~b /\ c)

Lexicografico(h, n, e) ==
    /\ es_mayor_que(h, n, e) <=>
          (h[n].obstaculo.x > e.x \/ (h[n].obstaculo.x = e.x /\ h[n].obstaculo.y > e.y))
    /\ es_igual_a(h, n, e) <=> Clave(h[n].obstaculo) = Clave(e)
    /\ ~(es_igual_a(h, n, e) /\ es_mayor_que(h, n, e))

Tricotomia(h, n, m) ==
    UnoSolo(es_igual_a(h, n, h[m].obstaculo),
            es_mayor_que(h, n, h[m].obstaculo),
            es_mayor_que(h, m, h[n].obstaculo))

Transitiva(h, n, m, e) ==
    (es_mayor_que(h, n, h[m].obstaculo) /\ es_mayor_que(h, m, e)) =>
        es_mayor_que(h, n, e)

C23_OrdenTotal ==
    UnaVezPorArbol =>
        \A n \in NodosDe(nodos, raiz) :
            /\ \A e \in Entradas(universo) : Lexicografico(nodos, n, e)
            /\ \A m \in NodosDe(nodos, raiz) :
                  /\ Tricotomia(nodos, n, m)
                  /\ es_mayor_que(nodos, n, nodos[m].obstaculo) =>
                        \A e \in Entradas(universo) : Transitiva(nodos, n, m, e)

\* An insertar has just stored an entry beside one of the same x and one of
\* the same y.
C23_Witness ==
    /\ op = "insertar" /\ ret = TRUE
    /\ \E g \in Guardados(nodos, raiz) : g.x = arg.x /\ g.y # arg.y
    /\ \E g \in Guardados(nodos, raiz) : g.x # arg.x /\ g.y = arg.y


\* C24: after any sequence of insertar and eliminar the nodes form a tree:
\* every node but the root is the child of one node and on one side of it,
\* the root is the child of none, no node is reached from itself, and the
\* nodes reached from the root are as many as the count.
\* The references to n: the pairs of a node and the side n hangs from.
Referencias(h, n) ==
    { <<p, "izquierdo">> : p \in { q \in DOMAIN h : h[q].izquierdo = n } }
        \cup { <<p, "derecho">> : p \in { q \in DOMAIN h : h[q].derecho = n } }

\* The nodes reached from the children of n.
Descendientes(h, n) == Elementos(Alcanzables(h, Hijos(h, n), Hijos(h, n)))

Vivos(h, raiz_) ==
    IF raiz_ = None THEN {} ELSE Elementos(Alcanzables(h, <<raiz_>>, <<raiz_>>))

C24_ArbolEstricto ==
    /\ \A n \in Vivos(nodos, raiz) :
          /\ Cardinality(Referencias(nodos, n)) = (IF n = raiz THEN 0 ELSE 1)
          /\ n \notin Descendientes(nodos, n)
          /\ nodos[n].izquierdo # None => nodos[n].izquierdo # nodos[n].derecho
    /\ Cardinality(Vivos(nodos, raiz)) = total_obstaculos
    /\ Vivos(nodos, raiz) = DOMAIN nodos

\* A deletion has just left a tree of three levels and five entries, its
\* root the entry that followed the deleted one.
C24_Witness ==
    /\ op = "eliminar" /\ ret = TRUE
    /\ total_obstaculos = 5
    /\ Cardinality(Vivos(nodos, raiz)) = 5
    /\ EnOrden[3] = nodos[raiz].obstaculo
    /\ Precede(arg, nodos[raiz].obstaculo)
    /\ \A g \in Guardados(nodos, raiz) :
          Precede(g, arg) \/ g = nodos[raiz].obstaculo \/ Precede(nodos[raiz].obstaculo, g)


\* C25: every operation ends on every reachable tree.  The queue loop of
\* recorrido_en_anchura ends with the queue empty after taking each node
\* from it once.  Each recursive call of insertar, eliminar,
\* _buscar_obstaculo, buscar_en_rango and recorrido_en_profundidad, and each
\* turn of the loop of _encontrar_minimo, goes from a node to a child of it,
\* from which fewer nodes are reached, so the steps are finitely many: no
\* more than the nodes for the two walks, no more than the height for the
\* descents.
\* The nodes the loop takes from the queue, in order, for as long as it has
\* turns left; Agotado if the turns run out with the queue not empty.
Agotado == <<-1>>

RECURSIVE Desencolados(_, _, _, _)
Desencolados(h, cola, sacados, turnos) ==
    IF cola = <<>> THEN sacados
    ELSE IF turnos = 0 THEN Agotado
    ELSE Desencolados(h, _encolar_hijos(h, Head(cola), Tail(cola)),
                      Append(sacados, Head(cola)), turnos - 1)

\* The nodes reached from n, n included.
Rango(h, n) ==
    IF n = None THEN 0 ELSE Cardinality(Elementos(Alcanzables(h, <<n>>, <<n>>)))

\* The turns of the loop of _encontrar_minimo from nodo, and the calls of
\* _buscar_obstaculo from nodo, counted for as long as pasos are left.
RECURSIVE TurnosMinimo(_, _, _)
TurnosMinimo(h, nodo, pasos) ==
    IF h[nodo].izquierdo = None THEN 0
    ELSE IF pasos = 0 THEN -1
    ELSE LET t == TurnosMinimo(h, h[nodo].izquierdo, pasos - 1)
         IN  IF t = -1 THEN -1 ELSE t + 1

RECURSIVE LlamadasBuscar(_, _, _, _)
LlamadasBuscar(h, nodo, o, pasos) ==
    IF nodo = None \/ es_igual_a(h, nodo, o) THEN 1
    ELSE IF pasos = 0 THEN -1
    ELSE LET t == LlamadasBuscar(h, IF es_mayor_que(h, nodo, o)
                                    THEN h[nodo].izquierdo ELSE h[nodo].derecho,
                                 o, pasos - 1)
         IN  IF t = -1 THEN -1 ELSE t + 1

\* The loop ended with the queue empty, having taken each node of the tree
\* from it once.
ColaVaciada(sacados) ==
    /\ sacados # Agotado
    /\ SinRepetidos(sacados)
    /\ Elementos(sacados) = Vivos(nodos, raiz)
    /\ Len(sacados) = total_obstaculos

\* C25: every operation ends.  The queue loop is run on every reachable
\* tree; the descents and the walks are measured once per tree.
C25_Terminacion ==
    /\ ColaVaciada(Desencolados(nodos, IF raiz = None THEN <<>> ELSE <<raiz>>,
                                <<>>, Len(nodos) + 1))
    /\ UnaVezPorArbol =>
          /\ \A n \in Vivos(nodos, raiz) :
                /\ Rango(nodos, nodos[n].izquierdo) < Rango(nodos, n)
                /\ Rango(nodos, nodos[n].derecho) < Rango(nodos, n)
                /\ TurnosMinimo(nodos, n, Len(nodos)) \in 0..(nodos[n].altura - 1)
          /\ \A o \in Entradas(universo) :
                LlamadasBuscar(nodos, raiz, o, Len(nodos)) \in
                    1..(obtener_altura(nodos, raiz) + 1)
          /\ Len(Visitados(nodos, raiz, 0, 50)) = total_obstaculos

\* A breadth-first traversal has just ended on a tree of six entries and
\* three levels whose leftmost node is two references below the root.
C25_Witness ==
    /\ op = "recorrido_en_anchura" /\ Len(ret) = 6
    /\ Len(Desencolados(nodos, <<raiz>>, <<>>, 6)) = 6
    /\ TurnosMinimo(nodos, raiz, 6) = 2


\* C26: the height of a reachable tree is logarithmic in its size: a tree
\* (the whole tree and every subtree) whose root has stored height a holds
\* MinNodos(a) entries or more, MinNodos(0) = 0, MinNodos(1) = 1,
\* MinNodos(a) = MinNodos(a-1) + MinNodos(a-2) + 1; so a tree of 7 entries
\* or fewer has height 4 at most, and the nodes a call of insertar, eliminar
\* or _buscar_obstaculo goes down through are no more than the height.
RECURSIVE MinNodos(_)
MinNodos(a) ==
    IF a <= 0 THEN 0 ELSE IF a = 1 THEN 1 ELSE MinNodos(a - 1) + MinNodos(a - 2) + 1

\* The nodes _eliminar_recursivo is called on.
RECURSIVE CaminoEliminar(_, _, _)
CaminoEliminar(h, nodo, o) ==
    IF nodo = None THEN {}
    ELSE IF es_igual_a(h, nodo, o)
    THEN IF h[nodo].izquierdo = None \/ h[nodo].derecho = None THEN {nodo}
         ELSE {nodo} \cup CaminoEliminar(h, h[nodo].derecho,
                              h[_encontrar_minimo(h, h[nodo].derecho)].obstaculo)
    ELSE IF es_mayor_que(h, nodo, o)
    THEN {nodo} \cup CaminoEliminar(h, h[nodo].izquierdo, o)
    ELSE {nodo} \cup CaminoEliminar(h, h[nodo].derecho, o)

C27_VacioSiCero ==
    /\ esta_vacio(raiz) <=> obtener_total_obstaculos(total_obstaculos) = 0
    /\ raiz = None <=> total_obstaculos = 0
    /\ obtener_total_obstaculos(total_obstaculos) >= 0
    /\ op = "esta_vacio" => (ret <=> total_obstaculos = 0)
    /\ op = "obtener_total_obstaculos" => (ret = 0 <=> raiz = None)

\* eliminar has just taken out the only entry the tree held.
C27_Witness ==
    /\ op = "eliminar" /\ ret = TRUE
    /\ antes = 1
    /\ esta_vacio(raiz)
    /\ obtener_total_obstaculos(total_obstaculos) = 0


\* C28: on any reachable tree, for any entry e whose pair is not stored,
\* insertar(e) and then eliminar(e) both return True and leave
\* recorrido_en_profundidad() and obtener_total_obstaculos() as they were
\* before the insertar; the shape of the tree may be another.
\* i: what insertar(e) leaves; d: what eliminar(e) leaves after it.
IdaYVuelta(i, d) ==
    /\ i.ret = TRUE
    /\ d.ret = TRUE
    /\ recorrido_en_profundidad(d.h, d.raiz) = EnOrden
    /\ obtener_total_obstaculos(d.total) = obtener_total_obstaculos(total_obstaculos)

\* The tree eliminar(e) leaves when called on the tree i that insertar(e) left.
Vuelta(i, e) == TrasEliminar(i.h, i.raiz, i.total, e)

C28_InsertarYEliminar ==
    UnaVezPorArbol =>
        \A e \in { o \in Entradas(universo) : ~Almacenada(nodos, raiz, o) } :
            \A i \in { Sobre(Actual, e) } : IdaYVuelta(i, Vuelta(i, e))

\* A tree of four entries or more which insertar(e) and eliminar(e) leave
\* with the same entries and another shape.
C28_Witness ==
    /\ UnaVezPorArbol /\ total_obstaculos >= 4
    /\ \E e \in { o \in Entradas(universo) : ~Almacenada(nodos, raiz, o) } :
          \E i \in { Sobre(Actual, e) } :
              \E d \in { Vuelta(i, e) } : IdaYVuelta(i, d) /\ d.h # nodos


\* C29: an insertar that succeeds restructures once at most: of the calls
\* of balancear it makes on its way back up, one at most applies a rotation
\* (single or double), and every ancestor of the rotated node is found by
\* balancear, and left by insertar, with the stored height it had before.
\* L: the calls of balancear of one insertar; d: what that insertar leaves.
Rota(ll) == balancear(ll.h, ll.n) # ll

\* R: the calls among L that rotate.
UnaRotacionEntre(L, R, d) ==
    /\ Cardinality(R) <= 1
    /\ \A ll \in R :
          /\ Factor(ll) \notin {-1, 0, 1}
          /\ \A a \in { c \in L : c.n # ll.n /\ ll.n \in NodosDe(nodos, c.n) } :
                /\ a \notin R
                /\ a.h[a.n].altura = nodos[a.n].altura
                /\ d.h[a.n].altura = nodos[a.n].altura
          /\ d.h[balancear(ll.h, ll.n).n].altura = nodos[ll.n].altura
    /\ \A ll \in L \ R : Factor(ll) \in {-1, 0, 1}

UnaRotacionDe(L, d) == UnaRotacionEntre(L, { ll \in L : Rota(ll) }, d)

UnaRotacion(L, d) == \A calls \in {L} : UnaRotacionDe(calls, d)

C29_UnaRotacion ==
    UnaVezPorArbol =>
        \A e \in { o \in Entradas(universo) : ~Almacenada(nodos, raiz, o) } :
            UnaRotacion(LlamadasInsertar(nodos, raiz, e),
                        insertar(nodos, raiz, total_obstaculos, e))

\* A tree of four entries or more on which an insertar applies a double
\* rotation below the root: the root is an ancestor of the rotated node.
C29_Witness ==
    /\ UnaVezPorArbol /\ total_obstaculos >= 4
    /\ \E e \in { o \in Entradas(universo) : ~Almacenada(nodos, raiz, o) } :
          \E ll \in LlamadasInsertar(nodos, raiz, e) :
              /\ Rota(ll)
              /\ ll.n # raiz
              /\ CasoIzquierdaDerecha(ll) \/ CasoDerechaIzquierda(ll)
              /\ UnaRotacion(LlamadasInsertar(nodos, raiz, e),
                             insertar(nodos, raiz, total_obstaculos, e))


\* C30: in every call of balancear that insertar or eliminar makes on a
\* reachable tree the factor of the node is between -2 and 2, by the stored
\* heights and by the real ones, and every rotation is called on a node that
\* has the child it lifts: rotar_derecha on a node with a left child,
\* rotar_izquierda on a node with a right child, the rotation of the child
\* in the two double cases included; no rotation reads an absent child.
PivotePresente(ll) ==
    /\ Factor(ll) > 1 =>
          /\ Izq(ll) # None
          /\ obtener_factor_balance(ll.h, Izq(ll)) < 0 => ll.h[Izq(ll)].derecho # None
    /\ Factor(ll) < -1 =>
          /\ Der(ll) # None
          /\ obtener_factor_balance(ll.h, Der(ll)) > 0 => ll.h[Der(ll)].izquierdo # None
    /\ CasoIzquierdaDerecha(ll) =>
          asignar_izquierdo(ll.n, rotar_izquierda(ll.h, Izq(ll)))[ll.n].izquierdo # None
    /\ CasoDerechaIzquierda(ll) =>
          asignar_derecho(ll.n, rotar_derecha(ll.h, Der(ll)))[ll.n].derecho # None

C30_FactorAcotado ==
    UnaVezPorArbol =>
        \A ll \in AlInsertar(Actual) \cup AlEliminar(Actual) :
            /\ Factor(ll) \in -2..2
            /\ FactorReal(ll.h, ll.n) = Factor(ll)
            /\ PivotePresente(ll)

\* A tree of four entries or more on which an eliminar finds a node of
\* factor -2 over a right child of factor 1: the right child is rotated to
\* the right first, with the left child it has.
C30_Witness ==
    /\ UnaVezPorArbol /\ total_obstaculos >= 4
    /\ \E ll \in AlEliminar(Actual) :
          /\ Factor(ll) = -2
          /\ CasoDerechaIzquierda(ll)
          /\ ll.h[Der(ll)].izquierdo # None
          /\ balancear(ll.h, ll.n).n = ll.h[Der(ll)].izquierdo

====
